---- MODULE Spec2Model ----
(***************************************************************************)
(* Model of apigate-proxy's decision cache engine (service.ProxyService):  *)
(* the windowed cache with prefetch-and-swap refresh, the tracking set,    *)
(* the warmup flag and the concurrent Check calls.                         *)
(*                                                                         *)
(* Every action is one lock-protected region (or one lock-free step) of    *)
(* the Go code.  The two regions whose atomicity the claims are about are  *)
(* split in two steps that hold s.mu in between: the cache consultation    *)
(* (getFromCache under RLock) and the drain of prefetch (snapshot, then    *)
(* reset, under Lock).                                                     *)
(*                                                                         *)
(* The upstream answers a batch call with one verdict for each key of the  *)
(* call, any verdict at any call, or with an error.  There is no clock: a  *)
(* batch call of a prefetch may complete at any later moment (its 10 s     *)
(* timeout is longer than the 5 s between a prefetch and its swap).        *)
(* Check calls are numbered in the order in which they start.              *)
(*                                                                         *)
(* The log shipper (service.LoggerService) has its own variables and its   *)
(* own specification, SpecLog: the buffer, the goroutines of triggerFlush, *)
(* the POSTs made to /api/logs, and main's shutdown (Stop, then the end   *)
(* of the process).                                                        *)
(***************************************************************************)
EXTENDS FiniteSets, Integers, Sequences, TLC

VARIABLES
    config,        \* *config.Config: the fields EncryptEmail reads
    mu,            \* s.mu sync.RWMutex: [writer, readers]
    currentCache,  \* s.currentCache map[string]bool
    pendingCache,  \* s.pendingCache map[string]bool, or nil
    batchedKeys,   \* s.batchedKeys map[string]struct{}
    warmUp,        \* s.warmUp
    sched,         \* the goroutine of Start: [pc, keys]
    inflight,      \* the goroutines spawned by prefetch, each in callUpstreamBatch
    ck,            \* the Check calls: locals and position of each
    traffic,       \* the requests that the callers of Check send
    hist,          \* history variables (no effect on the program)
    buffer,        \* LoggerService: s.buffer []models.LogRequest
    sending,       \* LoggerService: the goroutines spawned by triggerFlush, each
                   \* with its batch, before the POST of sendBatch
    posts,         \* the POSTs made to /api/logs, in order: [body, ok]
    lg,            \* the callers of QueueLog, main's shutdown, and history
    clk            \* the periods computed by the two Start functions and the
                   \* times at which the loops schedule their next steps

engineVars == <<config, mu, currentCache, pendingCache, batchedKeys, warmUp, sched, inflight, ck, traffic, hist>>

logVars == <<buffer, sending, posts, lg>>

clockVars == <<clk>>

vars == <<config, mu, currentCache, pendingCache, batchedKeys, warmUp, sched, inflight, ck, traffic, hist, buffer, sending, posts, lg, clk>>

----------------------------------------------------------------------------
\* Bounds of the model.

\* Number of Check calls (each may run concurrently with the others).
NumChecks == 2

\* Number of windows (swaps) the refresh loop runs.
MaxSwaps == 2

\* Number of times one caller makes its Check call, where callers repeat it.
MaxCalls == 2

\* Number of QueueLog calls (each may run concurrently with the others).
NumQueues == 3

\* config.LogBatchSize.
LogBatchSize == 2

\* The configured periods (WindowSeconds, LogFlushInterval) range over
\* -MaxSeconds..MaxSeconds; durations are counted in whole seconds.
MaxSeconds == 22

Procs == 1..NumChecks

\* The field values of the requests.
IPs == {"", "1.2.3.4"}
Emails == {"", "x@y"}
UserAgents == {"", "Mozilla"}

Requests == [IPAddress : IPs, Email : Emails, UserAgent : UserAgents]

\* The configurations: encryption enabled with a key, or not enabled.
Configs == {[EmailEncryptionEnabled |-> TRUE, EmailEncryptionKey |-> "0123456789abcdef"],
            [EmailEncryptionEnabled |-> FALSE, EmailEncryptionKey |-> "0123456789abcdef"]}

\* The requests of the concurrent runs: an email and a user-agent, each present
\* or not (the IP address is a literal key, as the email is with no encryption).
Traffic == {r \in Requests : r.IPAddress = ""}

----------------------------------------------------------------------------
\* utils: the pseudonymizer.  The hashes are injective on the model's values
\* and never return their input; the hex and the numeric format of the email
\* token are not told apart.

OneWayKeyedHash(key, data) == IF data = "x@y" THEN "hmac(x@y)" ELSE "hmac()"

CompressUserAgent(ua) == IF ua = "Mozilla" THEN "xxh(Mozilla)" ELSE "xxh()"

EncryptEmail(cfg, email) ==
    IF email = "" \/ ~cfg.EmailEncryptionEnabled \/ cfg.EmailEncryptionKey = ""
    THEN email
    ELSE OneWayKeyedHash(cfg.EmailEncryptionKey, email)

\* Check, lines 105-108: the resolved request (reqFor).
Resolve(cfg, req) ==
    [req EXCEPT !.Email = IF req.Email # "" THEN EncryptEmail(cfg, req.Email) ELSE req.Email]

----------------------------------------------------------------------------
\* Go maps.  A map[string]bool is a function on the set of its keys.

EmptyMap == [k \in {} |-> TRUE]

\* Mutant of Lookup: v := m[k] with no test of ok, an absent key reads as a
\* known false.
Lookup_NoOk(m, k) ==
    IF k \in DOMAIN m THEN [status |-> m[k], known |-> TRUE]
    ELSE [status |-> FALSE, known |-> TRUE]

\* v, ok := m[k]: the zero value and ok = false when k is absent.
Lookup(m, k) ==
    IF k \in DOMAIN m THEN [status |-> m[k], known |-> TRUE]
    ELSE [status |-> FALSE, known |-> FALSE]

NoEntry == [status |-> FALSE, known |-> FALSE]

\* Mutant of WriteAll: a key that is already in the map keeps its value.
WriteAll_KeepsOld(m, results) ==
    [k \in (DOMAIN m) \cup (DOMAIN results) |->
        IF k \in DOMAIN m THEN m[k] ELSE results[k]]

\* for _, item := range results { m[item.Key] = item.Allow }
WriteAll(m, results) ==
    [k \in (DOMAIN m) \cup (DOMAIN results) |->
        IF k \in DOMAIN results THEN results[k] ELSE m[k]]

NilCache == [nil |-> TRUE, m |-> EmptyMap]

----------------------------------------------------------------------------
\* s.mu: a readers/writer lock.

\* Mutant of CanLock: a writer does not wait for the readers.
CanLock_IgnoresReaders(m) == ~m.writer

\* s.mu.Lock() returns: no writer and no reader holds the lock.
CanLock(m) == ~m.writer /\ m.readers = {}

\* s.mu.RLock() returns: no writer holds the lock.
CanRLock(m) == ~m.writer

\* Mutant of RUnlock: the read lock is released when Check returns (a deferred
\* RUnlock), so a Check that missed keeps it.
RUnlock_Deferred(readers, p, found) == IF found THEN readers \ {p} ELSE readers

\* Check, line 123: s.mu.RUnlock() right after getFromCache, hit or miss.
RUnlock(readers, p, found) == readers \ {p}

----------------------------------------------------------------------------
\* Mutant of trackKeys: the raw user-agent is tracked, not its hash.
trackKeys_RawUA(bk, req) ==
    bk \cup (IF req.IPAddress # "" THEN {req.IPAddress} ELSE {})
       \cup (IF req.Email # "" THEN {req.Email} ELSE {})
       \cup (IF req.UserAgent # "" THEN {req.UserAgent} ELSE {})

\* trackKeys: the keys a request adds to batchedKeys.
trackKeys(bk, req) ==
    bk \cup (IF req.IPAddress # "" THEN {req.IPAddress} ELSE {})
       \cup (IF req.Email # "" THEN {req.Email} ELSE {})
       \cup (IF req.UserAgent # "" THEN {CompressUserAgent(req.UserAgent)} ELSE {})

\* Mutant of decide: no test of a request with no field, which is then a hit.
decide_EmptyIsHit(req, ip, email, ua) ==
    IF req.IPAddress # "" /\ ip.known /\ ~ip.status THEN <<FALSE, TRUE>>
    ELSE IF req.Email # "" /\ email.known /\ ~email.status THEN <<FALSE, TRUE>>
    ELSE IF req.UserAgent # "" /\ ua.known /\ ~ua.status THEN <<FALSE, TRUE>>
    ELSE IF /\ (req.IPAddress = "") \/ (ip.known /\ ip.status)
            /\ (req.Email = "") \/ (email.known /\ email.status)
            /\ (req.UserAgent = "") \/ (ua.known /\ ua.status)
         THEN <<TRUE, TRUE>>
         ELSE <<FALSE, FALSE>>

\* Mutant of decide: the test of a blocked email reads ipKnown.
decide_EmailTestsIPKnown(req, ip, email, ua) ==
    IF req.IPAddress # "" /\ ip.known /\ ~ip.status THEN <<FALSE, TRUE>>
    ELSE IF req.Email # "" /\ ip.known /\ ~email.status THEN <<FALSE, TRUE>>
    ELSE IF req.UserAgent # "" /\ ua.known /\ ~ua.status THEN <<FALSE, TRUE>>
    ELSE IF /\ (req.IPAddress = "") \/ (ip.known /\ ip.status)
            /\ (req.Email = "") \/ (email.known /\ email.status)
            /\ (req.UserAgent = "") \/ (ua.known /\ ua.status)
            /\ ~(req.IPAddress = "" /\ req.Email = "" /\ req.UserAgent = "")
         THEN <<TRUE, TRUE>>
         ELSE <<FALSE, FALSE>>

\* getFromCache, lines 210-251, on the three entries it has read:
\* <<decision, found>>.  ua is NoEntry when req.UserAgent is empty.
decide(req, ip, email, ua) ==
    IF req.IPAddress # "" /\ ip.known /\ ~ip.status THEN <<FALSE, TRUE>>
    ELSE IF req.Email # "" /\ email.known /\ ~email.status THEN <<FALSE, TRUE>>
    ELSE IF req.UserAgent # "" /\ ua.known /\ ~ua.status THEN <<FALSE, TRUE>>
    ELSE LET ipOk == (req.IPAddress = "") \/ (ip.known /\ ip.status)
             emailOk == (req.Email = "") \/ (email.known /\ email.status)
             uaOk == (req.UserAgent = "") \/ (ua.known /\ ua.status)
         IN IF ipOk /\ emailOk /\ uaOk
            THEN IF req.IPAddress = "" /\ req.Email = "" /\ req.UserAgent = ""
                 THEN <<FALSE, FALSE>>
                 ELSE IF (req.IPAddress # "" /\ ~ip.known)
                         \/ (req.Email # "" /\ ~email.known)
                         \/ (req.UserAgent # "" /\ ~ua.known)
                      THEN <<FALSE, FALSE>>
                      ELSE <<TRUE, TRUE>>
            ELSE <<FALSE, FALSE>>

\* getFromCache on one map.
getFromCache(cache, req) ==
    decide(req, Lookup(cache, req.IPAddress), Lookup(cache, req.Email),
           IF req.UserAgent # "" THEN Lookup(cache, CompressUserAgent(req.UserAgent))
           ELSE NoEntry)

\* Check, lines 139-150: the key list of a miss (as a set: the model's keys
\* of one request are distinct).
MissKeys(req) ==
    (IF req.IPAddress # "" THEN {req.IPAddress} ELSE {})
    \cup (IF req.Email # "" THEN {req.Email} ELSE {})
    \cup (IF req.UserAgent # "" THEN {CompressUserAgent(req.UserAgent)} ELSE {})

\* Mutant of InWarmup: the warmup return is never taken.
InWarmup_Never(w) == FALSE

\* Check, line 116: the test of the warmup flag read at line 112.
InWarmup(w) == w

\* Mutant of WarmupAfterSwap: the swap leaves the flag as it is.
WarmupAfterSwap_Kept(w) == w

\* swapCache, line 299: the warmup flag after a swap.
WarmupAfterSwap(w) == FALSE

\* Mutant of NextCache: with no pending map the swap keeps the current map.
NextCache_KeepsCurrent(cur, pend) == IF ~pend.nil THEN pend.m ELSE cur

\* swapCache, lines 302-308: the map that the swap installs.
NextCache(cur, pend) == IF ~pend.nil THEN pend.m ELSE EmptyMap

\* Mutant of CacheAfterError: a failed call caches a deny for each of its keys.
CacheAfterError_CachesDeny(cache, keys) == WriteAll(cache, [k \in keys |-> FALSE])

\* Check, lines 158-160: currentCache after a failed batch call (the return
\* comes before the write of lines 162-173).
CacheAfterError(cache, keys) == cache

\* Mutant of SwapTurn: the swap has a timer of its own and does not wait for
\* its turn in the loop.
SwapTurn_OwnTimer(pc) == pc # "reset"

\* Start, lines 69-86: swapCache is called by the loop after prefetch has
\* returned.
SwapTurn(pc) == pc = "swap"

\* Mutant of AwaitsBatch: prefetch makes the batch call itself and returns
\* when the call has ended.
AwaitsBatch_Synchronous(fl) == fl # {}

\* prefetch, lines 276-292: the batch call is made in a goroutine and prefetch
\* returns without waiting for it, whatever calls are in flight.
AwaitsBatch(fl) == FALSE

\* Mutant of CacheAfterPrefetch: the results of the prefetch are written to
\* the current map at once.
CacheAfterPrefetch_WritesCurrent(cache, results) == WriteAll(cache, results)

\* prefetch, lines 283-290: currentCache after the completion of the batch
\* call (the new map goes to pendingCache only).
CacheAfterPrefetch(cache, results) == cache

\* Mutant of ResetKeys: the drain does not reset the set.
ResetKeys_Kept(bk) == bk

\* prefetch, line 265: batchedKeys after the reset.
ResetKeys(bk) == {}

\* The responses of Check.
WarmupResponse == [Allow |-> TRUE, Status |-> "success", Message |-> "Warmup: Allowed"]

CacheResponse(decision) ==
    [Allow |-> decision, Status |-> "success",
     Message |-> IF decision THEN "Cache Hit" ELSE "Cache Hit: Blocked"]

NoKeysResponse == [Allow |-> FALSE, Status |-> "error", Message |-> "No keys provided"]

LiveResponse(allowed) ==
    [Allow |-> allowed, Status |-> "success",
     Message |-> IF allowed THEN "Allowed (Live Check)" ELSE "Blocked (Live Check)"]

\* return models.AllowResponse{}, err
ErrorResponse == [Allow |-> FALSE, Status |-> "", Message |-> "err"]

NoResponse == [Allow |-> FALSE, Status |-> "", Message |-> ""]

----------------------------------------------------------------------------
\* The periods of the two services.  Start of ProxyService and Start of
\* LoggerService compute them from the configuration; the loop of Start keeps
\* the times of its next prefetch and of its next swap, counted from the start
\* of the loop.  The configured values are far from the range of
\* time.Duration (int64 nanoseconds).

Seconds == (-MaxSeconds)..MaxSeconds

\* Start, lines 51, 52, 56 and 59, and LoggerService.Start, lines 40 and 41.
MinWindowSeconds == 5

DefaultWindowSeconds == 20

fetchOffset == 5

MinFetchSeconds == 1

MinLogFlushSeconds == 1

DefaultLogFlushSeconds == 10

\* Mutant of winSec: the configured window is taken as it is.
winSec_Unclamped(WindowSeconds) == WindowSeconds

\* Start, lines 50-53.
winSec(WindowSeconds) ==
    IF WindowSeconds < MinWindowSeconds THEN DefaultWindowSeconds ELSE WindowSeconds

\* Start, lines 57-60.
fetchDuration(windowDuration) ==
    IF windowDuration - fetchOffset <= 0 THEN MinFetchSeconds
    ELSE windowDuration - fetchOffset

\* LoggerService.Start, lines 39-42.
interval(LogFlushInterval) ==
    IF LogFlushInterval < MinLogFlushSeconds THEN DefaultLogFlushSeconds
    ELSE LogFlushInterval

\* The clock of a process that has not started its services, for a
\* configuration with the given periods.
NewClock(w, l) ==
    [WindowSeconds |-> w, LogFlushInterval |-> l,
     pc |-> "start",        \* the loop of ProxyService.Start
     windowDuration |-> 0, fetchDuration |-> 0,
     nextFetch |-> 0, nextSwap |-> 0,
     fetchedAt |-> 0,       \* the time for which the last prefetch was scheduled
     windows |-> 0,         \* the number of swaps of the loop
     lpc |-> "start",       \* the ticker of LoggerService.Start
     interval |-> 0, nextTick |-> 0, ticks |-> 0]

\* LoadConfig: the default periods (windowSecs and logFlush).
DefaultClock == NewClock(DefaultWindowSeconds, DefaultLogFlushSeconds)

\* ProxyService.Start, lines 50-67: the window and the fetch duration, and the
\* times of the first prefetch and of the first swap.
StartEngine ==
    LET w == winSec(clk.WindowSeconds) IN
    /\ clk.pc = "start"
    /\ clk' = [clk EXCEPT !.pc = "prefetch",
                          !.windowDuration = w,
                          !.fetchDuration = fetchDuration(w),
                          !.nextFetch = fetchDuration(w),
                          !.nextSwap = w]
    /\ UNCHANGED <<engineVars, logVars>>

\* The loop of Start, lines 72-77: the wait for nextFetch, prefetch, and the
\* time of the next prefetch.
LoopPrefetch ==
    /\ clk.pc = "prefetch"
    /\ clk.windows < MaxSwaps
    /\ clk' = [clk EXCEPT !.pc = "swap",
                          !.fetchedAt = clk.nextFetch,
                          !.nextFetch = @ + clk.windowDuration]
    /\ UNCHANGED <<engineVars, logVars>>

\* The loop of Start, lines 80-85: the wait for nextSwap, swapCache, and the
\* time of the next swap.
LoopSwap ==
    /\ clk.pc = "swap"
    /\ clk' = [clk EXCEPT !.pc = "prefetch",
                          !.nextSwap = @ + clk.windowDuration,
                          !.windows = @ + 1]
    /\ UNCHANGED <<engineVars, logVars>>

\* LoggerService.Start, lines 38-43 (main starts it after ProxyService).
StartLogger ==
    /\ clk.pc # "start"
    /\ clk.lpc = "start"
    /\ clk' = [clk EXCEPT !.lpc = "ticking",
                          !.interval = interval(clk.LogFlushInterval),
                          !.nextTick = interval(clk.LogFlushInterval)]
    /\ UNCHANGED <<engineVars, logVars>>

\* LoggerService.Start, lines 46-48: a tick, one interval after the previous.
LoopTick ==
    /\ clk.lpc = "ticking"
    /\ clk.ticks < MaxSwaps
    /\ clk' = [clk EXCEPT !.nextTick = @ + clk.interval, !.ticks = @ + 1]
    /\ UNCHANGED <<engineVars, logVars>>

NextClock ==
    \/ StartEngine
    \/ LoopPrefetch
    \/ LoopSwap
    \/ StartLogger
    \/ LoopTick

----------------------------------------------------------------------------
\* LoggerService (service/logger_service.go).  Each action is one region under
\* s.mu, or the POST of one sendBatch.  A log entry is its number in the order
\* of the appends and its email field; the other fields are not modelled.

LogCallers == 1..NumQueues

\* QueueLog, lines 54-60: the email field of the entry that is queued.
LogEmail(cfg, email) ==
    IF cfg.EmailEncryptionKey # "" /\ email # ""
    THEN OneWayKeyedHash(cfg.EmailEncryptionKey, email)
    ELSE email

\* Mutant of ShouldFlush: the flush waits for one entry more.
ShouldFlush_OffByOne(len) == len > LogBatchSize

\* QueueLog, line 64: shouldFlush.
ShouldFlush(len) == len >= LogBatchSize

\* Mutant of BufferAfterFailedPost: the batch is put back in front of the buffer.
BufferAfterFailedPost_PutBack(buf, batch) == batch \o buf

\* sendBatch, lines 114-125: the buffer after a POST that failed.
BufferAfterFailedPost(buf, batch) == buf

\* Mutant of MuDuringPost: Stop releases s.mu when it returns (a deferred
\* Unlock), so the mutex is held during its POST.
MuDuringPost_Deferred(batch) == TRUE

\* Stop, line 140 (and triggerFlush, line 88): s.mu.Unlock() comes before
\* sendBatch; whether the mutex is held while the batch is sent.
MuDuringPost(batch) == FALSE

\* Mutant of BufferAfterDrain: the buffer keeps its entries after the copy.
BufferAfterDrain_Kept(buf) == buf

\* triggerFlush, line 87, and Stop, line 139: s.buffer = s.buffer[:0], after
\* the entries have been copied into the batch.
BufferAfterDrain(buf) == <<>>

\* History: the batches taken from the buffer, in the order of the drains.
Drained(drained, buf) == IF buf = <<>> THEN drained ELSE Append(drained, buf)

\* NewLoggerService, and main before the shutdown signal.
InitLogger ==
    /\ buffer = <<>>
    /\ sending = {}
    /\ posts = <<>>
    /\ lg = [mu |-> FALSE,         \* s.mu sync.Mutex is held
             q |-> [c \in LogCallers |-> "idle"],
             main |-> "running",
             stopBatch |-> <<>>,   \* the batch that Stop is sending
             raws |-> <<>>,        \* history: the email of each QueueLog call, as given
             ticked |-> FALSE,     \* history: the ticker has flushed a batch
             drained |-> <<>>]     \* history: the batches drained, in order

\* triggerFlush, lines 75-93: an empty buffer is left alone; otherwise the
\* buffer is copied and reset, and a goroutine is spawned for sendBatch.
triggerFlush ==
    IF buffer = <<>>
    THEN UNCHANGED <<buffer, sending>>
    ELSE /\ buffer' = BufferAfterDrain(buffer)
         /\ sending' = sending \cup {buffer}

\* QueueLog, lines 52-65: the email is replaced, the entry is appended and
\* shouldFlush is computed (one region under s.mu).  The handlers run until
\* srv.Shutdown, which main calls before Stop.
QueueAppend(c) ==
    \E email \in Emails :
        LET entry == [id |-> Len(lg.raws) + 1, Email |-> LogEmail(config, email)] IN
        /\ lg.q[c] = "idle"
        /\ lg.main = "running"
        /\ ~lg.mu
        /\ buffer' = Append(buffer, entry)
        /\ lg' = [lg EXCEPT !.q[c] = IF ShouldFlush(Len(buffer')) THEN "flush" ELSE "done",
                            !.raws = Append(@, email)]
        /\ UNCHANGED <<clockVars, engineVars, sending, posts>>

\* QueueLog, lines 68-70: triggerFlush by the caller that reached the batch size.
QueueFlush(c) ==
    /\ lg.q[c] = "flush"
    /\ ~lg.mu
    /\ triggerFlush
    /\ lg' = [lg EXCEPT !.q[c] = "done", !.drained = Drained(@, buffer)]
    /\ UNCHANGED <<clockVars, engineVars, posts>>

\* Start, lines 46-48: a tick of the ticker.  A tick that finds the buffer
\* empty changes nothing (triggerFlush, lines 77-80).
Tick ==
    /\ lg.main # "exited"
    /\ ~lg.mu
    /\ buffer # <<>>
    /\ triggerFlush
    /\ lg' = [lg EXCEPT !.ticked = TRUE, !.drained = Drained(@, buffer)]
    /\ UNCHANGED <<clockVars, engineVars, posts>>

\* sendBatch in a goroutine of triggerFlush, lines 95-127: the POST is made
\* and answered with a status below 300.
SendBatchOk(b) ==
    /\ b \in sending
    /\ posts' = Append(posts, [body |-> b, ok |-> TRUE])
    /\ sending' = sending \ {b}
    /\ UNCHANGED <<clockVars, engineVars, buffer, lg>>

\* sendBatch in a goroutine of triggerFlush, lines 113-125: the POST fails
\* (transport error, or a status of 300 or more).
SendBatchFail(b) ==
    /\ b \in sending
    /\ posts' = Append(posts, [body |-> b, ok |-> FALSE])
    /\ sending' = sending \ {b}
    /\ buffer' = BufferAfterFailedPost(buffer, b)
    /\ UNCHANGED <<clockVars, engineVars, lg>>

\* Stop, lines 131-141: called by main after srv.Shutdown, when the handlers
\* have returned; an empty buffer makes Stop return at once, otherwise the
\* buffer is copied and reset.
StopFlush ==
    /\ lg.main = "running"
    /\ ~lg.mu
    /\ \A c \in LogCallers : lg.q[c] # "flush"
    /\ IF buffer = <<>>
       THEN /\ lg' = [lg EXCEPT !.main = "stopped"]
            /\ buffer' = buffer
       ELSE /\ lg' = [lg EXCEPT !.main = "stopping", !.stopBatch = buffer,
                                 !.mu = MuDuringPost(buffer),
                                 !.drained = Drained(@, buffer)]
            /\ buffer' = BufferAfterDrain(buffer)
    /\ UNCHANGED <<clockVars, engineVars, sending, posts>>

\* Stop, line 143: the synchronous sendBatch, and Stop returns.
StopSend ==
    \E ok \in BOOLEAN :
        /\ lg.main = "stopping"
        /\ posts' = Append(posts, [body |-> lg.stopBatch, ok |-> ok])
        /\ buffer' = IF ok THEN buffer ELSE BufferAfterFailedPost(buffer, lg.stopBatch)
        /\ lg' = [lg EXCEPT !.main = "stopped", !.stopBatch = <<>>, !.mu = FALSE]
        /\ UNCHANGED <<clockVars, engineVars, sending>>

\* main returns after Stop (main.go, lines 77-79): the process ends, and with
\* it the goroutines that have not made their POST.
Exit ==
    /\ lg.main = "stopped"
    /\ lg' = [lg EXCEPT !.main = "exited"]
    /\ sending' = {}
    /\ UNCHANGED <<clockVars, engineVars, buffer, posts>>

NextLog ==
    \/ \E c \in LogCallers : QueueAppend(c)
    \/ \E c \in LogCallers : QueueFlush(c)
    \/ Tick
    \/ \E b \in sending : SendBatchOk(b)
    \/ \E b \in sending : SendBatchFail(b)
    \/ StopFlush
    \/ StopSend
    \/ Exit

----------------------------------------------------------------------------
\* The state after NewProxyService, before any Check and with the refresh
\* loop of Start at its first prefetch.

NoRequest == [IPAddress |-> "", Email |-> "", UserAgent |-> ""]

IdleCheck ==
    [pc |-> "idle", req |-> NoRequest,
     ip |-> NoEntry, email |-> NoEntry, ua |-> NoEntry,
     results |-> EmptyMap, resp |-> NoResponse,
     calls |-> 0,          \* the number of calls this caller has started
     prev |-> NoResponse,  \* history: the response of this caller's previous call
     touched |-> FALSE,    \* history: since the previous call returned, a live
                           \* check has changed the entry of a key of the request
     seen |-> EmptyMap,    \* history: currentCache when the consultation began
     overlap |-> FALSE]    \* history: a swap happened since this call began
                           \* (of a call that has returned: since it returned)

\* A return of Check: the request and the response are kept, the other locals
\* are gone.
Return(c, resp) ==
    [IdleCheck EXCEPT !.pc = "done", !.req = c.req, !.resp = resp,
                      !.calls = c.calls, !.prev = c.prev]

Init ==
    /\ config \in Configs
    /\ mu = [writer |-> FALSE, readers |-> {}]
    /\ currentCache = EmptyMap
    /\ pendingCache = NilCache
    /\ batchedKeys = {}
    /\ warmUp = TRUE
    /\ sched = [pc |-> "prefetch", keys |-> {}]
    /\ inflight = {}
    /\ ck = [p \in Procs |-> IdleCheck]
    /\ traffic = Traffic
    /\ InitLogger
    /\ clk = DefaultClock
    /\ hist = [prefetches |-> 0, swaps |-> 0, pendingGen |-> 0, lastFailed |-> FALSE,
               lastDone |-> FALSE, sinceDrain |-> {}]

----------------------------------------------------------------------------
\* Check

\* Lines 101-109: the resolved request and trackKeys (one Lock region).
CheckTrack(p) ==
    \E req \in traffic :
        LET reqFor == Resolve(config, req) IN
        /\ ck[p].pc = "idle"
        /\ \A q \in Procs : q < p => ck[q].pc # "idle"
        /\ CanLock(mu)
        /\ batchedKeys' = trackKeys(batchedKeys, reqFor)
        /\ ck' = [ck EXCEPT ![p].pc = "warm", ![p].req = reqFor, ![p].calls = 1]
        /\ hist' = [hist EXCEPT !.sinceDrain = @ \cup MissKeys(reqFor)]
        /\ UNCHANGED <<clockVars, logVars, config, mu, currentCache, pendingCache, warmUp, sched, inflight, traffic>>

\* Lines 111-118: the warmup test (one RLock region) and the warmup return.
CheckWarmup(p) ==
    /\ ck[p].pc = "warm"
    /\ CanRLock(mu)
    /\ IF InWarmup(warmUp)
       THEN ck' = [ck EXCEPT ![p] = Return(ck[p], WarmupResponse)]
       ELSE ck' = [ck EXCEPT ![p].pc = "lookup"]
    /\ UNCHANGED <<clockVars, logVars, config, mu, currentCache, pendingCache, batchedKeys, warmUp, sched,
                   inflight, traffic, hist>>

\* Lines 121-122 and 205-206: RLock, and getFromCache reads the IP and the
\* email entries.
CheckLookup(p) ==
    /\ ck[p].pc = "lookup"
    /\ CanRLock(mu)
    /\ mu' = [mu EXCEPT !.readers = @ \cup {p}]
    /\ ck' = [ck EXCEPT ![p].pc = "lookupUA",
                        ![p].ip = Lookup(currentCache, ck[p].req.IPAddress),
                        ![p].email = Lookup(currentCache, ck[p].req.Email),
                        ![p].seen = currentCache]
    /\ UNCHANGED <<clockVars, logVars, config, currentCache, pendingCache, batchedKeys, warmUp, sched,
                   inflight, traffic, hist>>

\* Lines 219-252, 123-131 and 137-154: getFromCache reads the user-agent entry
\* and decides, RUnlock; a hit returns, a miss with no key returns the error
\* response, another miss goes to the upstream.
CheckDecide(p) ==
    LET req == ck[p].req
        ua == IF req.UserAgent # ""
              THEN Lookup(currentCache, CompressUserAgent(req.UserAgent))
              ELSE NoEntry
        d == decide(req, ck[p].ip, ck[p].email, ua)
    IN
    /\ ck[p].pc = "lookupUA"
    /\ mu' = [mu EXCEPT !.readers = RUnlock(@, p, d[2])]
    /\ ck' = [ck EXCEPT ![p] =
                IF d[2] THEN Return(ck[p], CacheResponse(d[1]))
                ELSE IF MissKeys(req) = {} THEN Return(ck[p], NoKeysResponse)
                ELSE [ck[p] EXCEPT !.pc = "call", !.ip = NoEntry, !.email = NoEntry,
                                  !.seen = EmptyMap]]
    /\ UNCHANGED <<clockVars, logVars, config, currentCache, pendingCache, batchedKeys, warmUp, sched,
                   inflight, traffic, hist>>

\* Lines 157 and 321-349: callUpstreamBatch returns one verdict for each key.
CheckCallOk(p) ==
    \E results \in [MissKeys(ck[p].req) -> BOOLEAN] :
        /\ ck[p].pc = "call"
        /\ ck' = [ck EXCEPT ![p].pc = "write", ![p].results = results]
        /\ UNCHANGED <<clockVars, logVars, config, mu, currentCache, pendingCache, batchedKeys, warmUp, sched,
                       inflight, traffic, hist>>

\* Lines 157-160: callUpstreamBatch returns an error.
CheckCallErr(p) ==
    /\ ck[p].pc = "call"
    /\ currentCache' = CacheAfterError(currentCache, MissKeys(ck[p].req))
    /\ ck' = [ck EXCEPT ![p] = Return(ck[p], ErrorResponse)]
    /\ UNCHANGED <<clockVars, logVars, config, mu, pendingCache, batchedKeys, warmUp, sched,
                   inflight, traffic, hist>>

\* Lines 162-180: the results are written to currentCache (one Lock region).
CheckWrite(p) ==
    LET results == ck[p].results
        allowed == \A k \in DOMAIN results : results[k]
    IN
    /\ ck[p].pc = "write"
    /\ CanLock(mu)
    /\ currentCache' = WriteAll(currentCache, results)
    /\ ck' = [q \in Procs |->
                IF q = p THEN Return(ck[p], LiveResponse(allowed))
                ELSE IF /\ ck[q].pc = "done" \/ ck[q].calls > 1
                        /\ \E k \in MissKeys(ck[q].req) :
                              Lookup(currentCache', k) # Lookup(currentCache, k)
                     THEN [ck[q] EXCEPT !.touched = TRUE]
                     ELSE ck[q]]
    /\ UNCHANGED <<clockVars, logVars, config, mu, pendingCache, batchedKeys, warmUp, sched, inflight, traffic, hist>>

\* Lines 101-109 again: a caller whose Check has returned makes the same call
\* once more (the same resolved request).
CheckAgain(p) ==
    /\ ck[p].pc = "done"
    /\ ck[p].calls < MaxCalls
    /\ CanLock(mu)
    /\ batchedKeys' = trackKeys(batchedKeys, ck[p].req)
    /\ ck' = [ck EXCEPT ![p].pc = "warm", ![p].calls = @ + 1,
                        ![p].prev = ck[p].resp, ![p].resp = NoResponse]
    /\ hist' = [hist EXCEPT !.sinceDrain = @ \cup MissKeys(ck[p].req)]
    /\ UNCHANGED <<clockVars, logVars, config, mu, currentCache, pendingCache, warmUp, sched, inflight, traffic>>

----------------------------------------------------------------------------
\* The refresh loop of Start: prefetch, swapCache, prefetch, swapCache, ...

\* prefetch, lines 255-260: Lock, and the keys of batchedKeys are collected.
PrefetchCollect ==
    /\ sched.pc = "prefetch"
    /\ hist.swaps < MaxSwaps
    /\ CanLock(mu)
    /\ mu' = [mu EXCEPT !.writer = TRUE]
    /\ sched' = [pc |-> "reset", keys |-> batchedKeys]
    /\ hist' = [hist EXCEPT !.sinceDrain = {}, !.prefetches = @ + 1, !.lastFailed = FALSE,
                            !.lastDone = FALSE]
    /\ UNCHANGED <<clockVars, logVars, config, currentCache, pendingCache, batchedKeys, warmUp, inflight, ck, traffic>>

\* prefetch, lines 265-292: batchedKeys is reset, Unlock; with keys, a
\* goroutine is spawned that calls the upstream.
PrefetchReset ==
    /\ sched.pc = "reset"
    /\ batchedKeys' = ResetKeys(batchedKeys)
    /\ mu' = [mu EXCEPT !.writer = FALSE]
    /\ inflight' = IF sched.keys = {} THEN inflight
                   ELSE inflight \cup {[gen |-> hist.prefetches, keys |-> sched.keys]}
    /\ sched' = [pc |-> "swap", keys |-> {}]
    /\ UNCHANGED <<clockVars, logVars, config, currentCache, pendingCache, warmUp, ck, traffic, hist>>

\* The goroutine of prefetch, lines 277 and 283-290: the batch call succeeds
\* and the new map is stored in pendingCache (one Lock region).
PrefetchDone(t) ==
    \E results \in [t.keys -> BOOLEAN] :
        /\ t \in inflight
        /\ CanLock(mu)
        /\ pendingCache' = [nil |-> FALSE, m |-> WriteAll(EmptyMap, results)]
        /\ currentCache' = CacheAfterPrefetch(currentCache, results)
        /\ inflight' = inflight \ {t}
        /\ hist' = [hist EXCEPT !.pendingGen = t.gen,
                                !.lastDone = @ \/ (t.gen = hist.prefetches)]
        /\ UNCHANGED <<clockVars, logVars, config, mu, batchedKeys, warmUp, sched, ck, traffic>>

\* The goroutine of prefetch, lines 277-281: the batch call fails.
PrefetchFail(t) ==
    /\ t \in inflight
    /\ inflight' = inflight \ {t}
    /\ hist' = [hist EXCEPT !.lastFailed = @ \/ (t.gen = hist.prefetches)]
    /\ UNCHANGED <<clockVars, logVars, config, mu, currentCache, pendingCache, batchedKeys, warmUp, sched, ck, traffic>>

\* swapCache, lines 295-308 (one Lock region).
swapCache ==
    /\ SwapTurn(sched.pc)
    /\ ~AwaitsBatch(inflight)
    /\ CanLock(mu)
    /\ warmUp' = WarmupAfterSwap(warmUp)
    /\ currentCache' = NextCache(currentCache, pendingCache)
    /\ pendingCache' = NilCache
    /\ sched' = [pc |-> "prefetch", keys |-> {}]
    /\ hist' = [hist EXCEPT !.swaps = @ + 1, !.pendingGen = 0, !.lastFailed = FALSE,
                            !.lastDone = FALSE]
    /\ ck' = [p \in Procs |->
                IF ck[p].pc = "idle" THEN ck[p]
                ELSE [ck[p] EXCEPT !.overlap = TRUE]]
    /\ UNCHANGED <<clockVars, logVars, config, mu, batchedKeys, inflight, traffic>>

----------------------------------------------------------------------------
Next ==
    \/ \E p \in Procs : CheckTrack(p)
    \/ \E p \in Procs : CheckWarmup(p)
    \/ \E p \in Procs : CheckLookup(p)
    \/ \E p \in Procs : CheckDecide(p)
    \/ \E p \in Procs : CheckCallOk(p)
    \/ \E p \in Procs : CheckCallErr(p)
    \/ \E p \in Procs : CheckWrite(p)
    \/ PrefetchCollect
    \/ PrefetchReset
    \/ \E t \in inflight : PrefetchDone(t)
    \/ \E t \in inflight : PrefetchFail(t)
    \/ swapCache

Spec == Init /\ [][Next]_vars

\* The engine with a refresh loop that keeps running and Checks that leave
\* their lock regions.  The goroutine of Start is scheduled again and again:
\* its sleeps end and each of its Lock calls returns, since a Lock that waits
\* keeps new readers out (sync.RWMutex) and a Check that holds the read lock
\* goes on to release it.  Nothing is assumed of the upstream: a batch call may
\* fail, and it may stay in flight for ever.
Fairness ==
    /\ SF_vars(PrefetchCollect)
    /\ WF_vars(PrefetchReset)
    /\ SF_vars(swapCache)
    /\ \A p \in Procs : WF_vars(CheckDecide(p))

SpecLive == Init /\ [][Next]_vars /\ Fairness

\* The log shipper alone, on a fresh process.
SpecLog == Init /\ [][NextLog]_vars

\* The periods and the schedule of the two loops, for any configured periods.
InitClock ==
    /\ config \in Configs
    /\ mu = [writer |-> FALSE, readers |-> {}]
    /\ currentCache = EmptyMap
    /\ pendingCache = NilCache
    /\ batchedKeys = {}
    /\ warmUp = TRUE
    /\ sched = [pc |-> "prefetch", keys |-> {}]
    /\ inflight = {}
    /\ ck = [p \in Procs |-> IdleCheck]
    /\ traffic = Traffic
    /\ InitLogger
    /\ hist = [prefetches |-> 0, swaps |-> 0, pendingGen |-> 0, lastFailed |-> FALSE,
               lastDone |-> FALSE, sinceDrain |-> {}]
    /\ \E w, l \in Seconds : clk = NewClock(w, l)

SpecClock == InitClock /\ [][NextClock]_vars

\* The process with both services: one caller of Check, the refresh loop,
\* LogBatchSize callers of QueueLog, the ticker and the shutdown.
NextIO ==
    \/ CheckTrack(1)
    \/ CheckWarmup(1)
    \/ CheckLookup(1)
    \/ CheckDecide(1)
    \/ CheckCallOk(1)
    \/ CheckCallErr(1)
    \/ CheckWrite(1)
    \/ PrefetchCollect
    \/ PrefetchReset
    \/ \E t \in inflight : PrefetchDone(t)
    \/ \E t \in inflight : PrefetchFail(t)
    \/ swapCache
    \/ \E c \in 1..LogBatchSize : QueueAppend(c)
    \/ \E c \in 1..LogBatchSize : QueueFlush(c)
    \/ Tick
    \/ \E b \in sending : SendBatchOk(b)
    \/ \E b \in sending : SendBatchFail(b)
    \/ StopFlush
    \/ StopSend
    \/ Exit

SpecIO == Init /\ [][NextIO]_vars

----------------------------------------------------------------------------
\* One Check call alone, on any state the engine can be in between two steps
\* of the refresh loop, with any request: the engine in warmup, or after a
\* swap with any map of verdicts for the keys of the configuration.

Keys(cfg) == {"1.2.3.4", EncryptEmail(cfg, "x@y"), CompressUserAgent("Mozilla")}

Maps(cfg) == UNION {[D -> BOOLEAN] : D \in SUBSET Keys(cfg)}

InitCheck ==
    /\ config \in Configs
    /\ mu = [writer |-> FALSE, readers |-> {}]
    /\ \/ warmUp = TRUE /\ currentCache = EmptyMap
       \/ warmUp = FALSE /\ currentCache \in Maps(config)
    /\ pendingCache = NilCache
    /\ batchedKeys = {}
    /\ sched = [pc |-> "prefetch", keys |-> {}]
    /\ inflight = {}
    /\ ck = [p \in Procs |-> IdleCheck]
    /\ traffic = Requests
    /\ InitLogger
    /\ clk = DefaultClock
    /\ hist = [prefetches |-> IF warmUp THEN 0 ELSE 1, swaps |-> IF warmUp THEN 0 ELSE 1,
               pendingGen |-> 0, lastFailed |-> FALSE, lastDone |-> FALSE,
               sinceDrain |-> {}]

NextCheck ==
    \/ CheckTrack(1)
    \/ CheckWarmup(1)
    \/ CheckLookup(1)
    \/ CheckDecide(1)
    \/ CheckCallOk(1)
    \/ CheckCallErr(1)
    \/ CheckWrite(1)

SpecCheck == InitCheck /\ [][NextCheck]_vars

----------------------------------------------------------------------------
\* One window: the callers make their Check calls concurrently and repeat
\* them, on an engine whose first swap is over, with any map of verdicts, and
\* with no step of the refresh loop.

InitRepeat ==
    /\ config \in Configs
    /\ mu = [writer |-> FALSE, readers |-> {}]
    /\ warmUp = FALSE
    /\ currentCache \in Maps(config)
    /\ pendingCache = NilCache
    /\ batchedKeys = {}
    /\ sched = [pc |-> "prefetch", keys |-> {}]
    /\ inflight = {}
    /\ ck = [p \in Procs |-> IdleCheck]
    /\ traffic = Traffic
    /\ InitLogger
    /\ clk = DefaultClock
    /\ hist = [prefetches |-> 1, swaps |-> 1, pendingGen |-> 0, lastFailed |-> FALSE,
               lastDone |-> FALSE, sinceDrain |-> {}]

NextRepeat ==
    \/ \E p \in Procs : CheckTrack(p)
    \/ \E p \in Procs : CheckAgain(p)
    \/ \E p \in Procs : CheckWarmup(p)
    \/ \E p \in Procs : CheckLookup(p)
    \/ \E p \in Procs : CheckDecide(p)
    \/ \E p \in Procs : CheckCallOk(p)
    \/ \E p \in Procs : CheckCallErr(p)
    \/ \E p \in Procs : CheckWrite(p)

SpecRepeat == InitRepeat /\ [][NextRepeat]_vars

----------------------------------------------------------------------------
\* Definitions shared by the properties.

\* The resolved key set of a request: the non-empty keys among the IP literal,
\* the email token and the compressed user-agent.
KeySet(req) ==
    {k \in {req.IPAddress, req.Email,
            IF req.UserAgent = "" THEN "" ELSE CompressUserAgent(req.UserAgent)} : k # ""}

Denies(cache, k) == k \in DOMAIN cache /\ ~cache[k]

Allows(cache, k) == k \in DOMAIN cache /\ cache[k]

HitBlocked == [Allow |-> FALSE, Status |-> "success", Message |-> "Cache Hit: Blocked"]

HitAllowed == [Allow |-> TRUE, Status |-> "success", Message |-> "Cache Hit"]

\* Check p finishes its cache consultation in this step.
DecideStep(p) == ck[p].pc = "lookupUA" /\ ck'[p].pc # "lookupUA"

\* What the consultation of a Check record returned: <<decision, found>>.
Outcome(c) ==
    IF c.pc = "done" /\ c.resp \in {HitBlocked, HitAllowed}
    THEN <<c.resp.Allow, TRUE>>
    ELSE <<FALSE, FALSE>>

\* Check p reads or writes the engine's cache state in this step: the warmup
\* test, the consultation or the write of live-check results.
AccessStep(p) ==
    ck[p].pc \in {"warm", "lookup", "lookupUA", "write"} /\ ck'[p].pc # ck[p].pc

----------------------------------------------------------------------------
\* C1: a cache consultation that runs concurrently with a swap returns what
\* getFromCache gives on one single map, the one current when the consultation
\* began or the one current when it ends, never a mixture of entries of two maps.
C1_NoMixture ==
    [][\A p \in Procs :
        DecideStep(p) =>
            \/ Outcome(ck'[p]) = getFromCache(ck[p].seen, ck[p].req)
            \/ Outcome(ck'[p]) = getFromCache(currentCache, ck[p].req)]_vars

\* A Check is in the middle of its consultation of a request with an email and
\* a user-agent, while the swap of a different pending map is due.
C1_Witness ==
    \E p \in Procs :
        /\ ck[p].pc = "lookupUA"
        /\ ck[p].req.Email # "" /\ ck[p].req.UserAgent # ""
        /\ sched.pc = "swap"
        /\ ~pendingCache.nil /\ pendingCache.m # currentCache

\* C2 as stated: every access of a Check (warmup test, consultation, write of
\* live-check results) is made with no swap since that Check started.
C2_PinnedToStartMap ==
    [][\A p \in Procs : AccessStep(p) => ~ck[p].overlap]_vars

\* C2 as amended: while a Check is in the middle of its cache consultation no
\* step changes currentCache or the warmup flag, so the consultation sees one
\* map throughout (the one current when it began); the accesses of a Check that
\* come after a swap see the new map, whenever the Check started.
C2_ConsultationSeesOneMap ==
    [][\A p \in Procs :
        ck[p].pc = "lookupUA" => (currentCache' = currentCache /\ warmUp' = warmUp)]_vars

\* A Check that started before a swap is in the middle of its consultation
\* after that swap.
C2_Witness ==
    \E p \in Procs : ck[p].pc = "lookupUA" /\ ck[p].overlap

\* C3: when a Check finishes its consultation and some key of its resolved
\* key set is in currentCache with verdict deny, it returns allow=false
\* ("Cache Hit: Blocked"), whatever the other keys are.
C3_DenyDominates ==
    [][\A p \in Procs :
        (DecideStep(p) /\ \E k \in KeySet(ck[p].req) : Denies(currentCache, k))
            => (ck'[p].pc = "done" /\ ck'[p].resp = HitBlocked)]_vars

\* A Check returned "Cache Hit: Blocked" on a request with a denied key and
\* another key that is unknown.
C3_Witness ==
    \E p \in Procs :
        /\ ck[p].pc = "done" /\ ck[p].resp = HitBlocked
        /\ \E k1, k2 \in KeySet(ck[p].req) :
              Denies(currentCache, k1) /\ k2 \notin DOMAIN currentCache

\* The states of one Check running alone in which it has consulted the cache
\* and currentCache is still the map it consulted.
ReturnedHit(c) == c.pc = "done" /\ c.resp \in {HitBlocked, HitAllowed}

TookMiss(c) ==
    \/ c.pc \in {"call", "write"}
    \/ c.pc = "done" /\ c.resp \in {NoKeysResponse, ErrorResponse}

\* C4 as stated: blocked when some key is known deny; otherwise a hit exactly
\* when every non-empty field's key is known and allowed; otherwise a miss.
C4_ThreeFieldRule ==
    \A p \in Procs :
        LET c == ck[p] IN
        (ReturnedHit(c) \/ TookMiss(c)) =>
            IF \E k \in KeySet(c.req) : Denies(currentCache, k)
            THEN c.pc = "done" /\ c.resp = HitBlocked
            ELSE IF \A k \in KeySet(c.req) : Allows(currentCache, k)
                 THEN c.pc = "done" /\ c.resp = HitAllowed
                 ELSE TookMiss(c)

\* C4 as amended: as stated, but the hit needs at least one non-empty field; a
\* request with no non-empty field is a miss.
C4_ThreeFieldRuleNonEmpty ==
    \A p \in Procs :
        LET c == ck[p] IN
        (ReturnedHit(c) \/ TookMiss(c)) =>
            IF \E k \in KeySet(c.req) : Denies(currentCache, k)
            THEN c.pc = "done" /\ c.resp = HitBlocked
            ELSE IF KeySet(c.req) # {} /\ \A k \in KeySet(c.req) : Allows(currentCache, k)
                 THEN c.pc = "done" /\ c.resp = HitAllowed
                 ELSE TookMiss(c)

\* The partial-knowledge miss: the IP is known and allowed, the email key is
\* unknown, and the Check goes to the upstream.
C4_Witness ==
    \E p \in Procs :
        /\ ck[p].pc = "call"
        /\ ck[p].req.IPAddress # "" /\ Allows(currentCache, ck[p].req.IPAddress)
        /\ ck[p].req.Email # "" /\ ck[p].req.Email \notin DOMAIN currentCache

\* C5: the warmup flag is true exactly until the first swap: true before any
\* swap, false after the first one and after every later one.
C5_WarmupMonotonic == warmUp <=> (hist.swaps = 0)

\* The flag is still false after the second swap.
C5_Witness == ~warmUp /\ hist.swaps >= 2

\* C6: while warmup is true, currentCache is untouched and every Check that
\* has passed the warmup test has returned "Warmup: Allowed" with allow=true and
\* status "success": none is consulting the cache, calling the upstream or
\* writing results.
C6_WarmupAllows ==
    warmUp =>
        /\ currentCache = EmptyMap
        /\ \A p \in Procs :
              \/ ck[p].pc \in {"idle", "warm"}
              \/ /\ ck[p].pc = "done"
                 /\ ck[p].resp = [Allow |-> TRUE, Status |-> "success",
                                  Message |-> "Warmup: Allowed"]

\* A Check has returned during warmup, after a prefetch has filled pendingCache.
C6_Witness ==
    /\ warmUp
    /\ ~pendingCache.nil
    /\ \E p \in Procs : ck[p].pc = "done" /\ ck[p].resp.Message = "Warmup: Allowed"

\* C7: a Check that has started has inserted every key of its resolved key
\* set into the tracking set, before the warmup test and on every path (no
\* prefetch drains the set while one Check runs alone).
C7_TracksEveryKey ==
    \A p \in Procs : ck[p].pc # "idle" => KeySet(ck[p].req) \subseteq batchedKeys

\* A Check of a request with three fields ended with the upstream's error, and
\* its three keys are tracked.
C7_Witness ==
    \E p \in Procs :
        /\ ck[p].pc = "done" /\ ck[p].resp = ErrorResponse
        /\ Cardinality(KeySet(ck[p].req)) = 3
        /\ KeySet(ck[p].req) \subseteq batchedKeys

\* C8: once the drain of a prefetch is over, the tracking set holds only keys
\* tracked since that drain began; and during the drain the snapshot is the
\* whole set (nothing is tracked between the snapshot and the reset).
C8_DrainIsAtomic ==
    /\ sched.pc # "reset" => batchedKeys \subseteq hist.sinceDrain
    /\ sched.pc = "reset" => sched.keys = batchedKeys

\* A batch call is in flight and a key that is not in it has been tracked.
C8_Witness ==
    \E t \in inflight : batchedKeys \ t.keys # {}

\* C9 as stated: the swap that follows a prefetch whose batch call failed
\* installs an empty currentCache.
C9_FailedPrefetchEmptyCache ==
    [][(sched.pc = "swap" /\ sched'.pc = "prefetch" /\ hist.lastFailed)
          => currentCache' = EmptyMap]_vars

\* C10 as stated: the map a swap installs is empty or was built from the batch
\* call of the prefetch that ran since the previous swap.
C10_NoVerdictOutlivesWindow ==
    [][(sched.pc = "swap" /\ sched'.pc = "prefetch" /\ ~pendingCache.nil)
          => hist.pendingGen = hist.prefetches]_vars

----------------------------------------------------------------------------
\* Check p returns from the write of its live-check results in this step.
WriteStep(p) == ck[p].pc = "write" /\ ck'[p].pc = "done"

\* C11: when a Check that missed and whose batch call succeeded writes its
\* results, currentCache then holds every returned key with the returned
\* verdict (an earlier value is overwritten), the other entries are as they
\* were, and the Check returns allow = the AND of the returned verdicts with
\* "Allowed (Live Check)", or "Blocked (Live Check)" when a verdict is deny.
C11_LiveWriteAndVerdict ==
    [][\A p \in Procs :
        WriteStep(p) =>
            LET results == ck[p].results
                anyDeny == \E k \in DOMAIN results : ~results[k]
            IN
            /\ DOMAIN currentCache' = DOMAIN currentCache \cup DOMAIN results
            /\ \A k \in DOMAIN results : currentCache'[k] = results[k]
            /\ \A k \in DOMAIN currentCache \ DOMAIN results :
                  currentCache'[k] = currentCache[k]
            /\ ck'[p].resp.Status = "success"
            /\ ck'[p].resp.Allow = ~anyDeny
            /\ ck'[p].resp.Message =
                  IF anyDeny THEN "Blocked (Live Check)" ELSE "Allowed (Live Check)"]_vars

\* A Check of a request with three keys has returned "Blocked (Live Check)",
\* and currentCache holds one of its keys allowed and another one denied.
C11_Witness ==
    \E p \in Procs :
        /\ ck[p].pc = "done" /\ ck[p].resp.Message = "Blocked (Live Check)"
        /\ Cardinality(KeySet(ck[p].req)) = 3
        /\ \E k1, k2 \in KeySet(ck[p].req) :
              Allows(currentCache, k1) /\ Denies(currentCache, k2)

----------------------------------------------------------------------------
\* The refresh loop runs swapCache in this step.
SwapStep == sched.pc = "swap" /\ sched'.pc = "prefetch"

\* Check q has returned from a live check, and no swap has run since.
LiveInWindow(q) ==
    /\ ck[q].pc = "done" /\ ~ck[q].overlap
    /\ ck[q].resp.Message \in {"Allowed (Live Check)", "Blocked (Live Check)"}

\* C12: what a miss has written stays in currentCache until the next swap,
\* and a Check of the same resolved request that consults the cache before
\* that swap is answered from the cache with no upstream call ("Cache Hit"
\* when the cache holds allow for each of its keys, as after an "Allowed (Live
\* Check)"; "Cache Hit: Blocked" when it holds a deny); the next swap wipes
\* it: every entry of the new currentCache is an entry of the map built by a
\* prefetch.
C12_LiveWriteVisibleUntilSwap ==
    [][/\ \A q \in Procs :
            LiveInWindow(q) => KeySet(ck[q].req) \subseteq DOMAIN currentCache
       /\ \A p, q \in Procs :
            (DecideStep(p) /\ LiveInWindow(q) /\ ck[p].req = ck[q].req) =>
                /\ ck'[p].pc = "done"
                /\ ck'[p].resp =
                      IF \A k \in KeySet(ck[p].req) : Allows(currentCache, k)
                      THEN HitAllowed ELSE HitBlocked
       /\ SwapStep =>
            \A k \in DOMAIN currentCache' :
                /\ ~pendingCache.nil
                /\ k \in DOMAIN pendingCache.m
                /\ currentCache'[k] = pendingCache.m[k]]_vars

\* A Check returned "Allowed (Live Check)", a later Check of the same request
\* returned "Cache Hit" in the same window, and then a swap ran that left
\* none of the written keys in currentCache.
C12_Witness ==
    \E p, q \in Procs :
        /\ q < p
        /\ ck[q].pc = "done" /\ ck[q].resp.Message = "Allowed (Live Check)"
        /\ ck[p].pc = "done" /\ ck[p].resp = HitAllowed
        /\ ck[p].req = ck[q].req
        /\ ck[p].overlap /\ ck[q].overlap
        /\ KeySet(ck[q].req) \cap DOMAIN currentCache = {}

----------------------------------------------------------------------------
\* The batch call of Check p ends in this step.
CallEnds(p) == ck[p].pc = "call" /\ ck'[p].pc # "call"

\* C13: when the batch call of a Check that missed fails, the Check returns
\* the error (the zero response and err) and the step leaves currentCache and
\* pendingCache as they were.
C13_FailedCallLeavesCaches ==
    [][\A p \in Procs :
        (CallEnds(p) /\ ck'[p].pc = "done") =>
            /\ ck'[p].resp = [Allow |-> FALSE, Status |-> "", Message |-> "err"]
            /\ currentCache' = currentCache
            /\ pendingCache' = pendingCache]_vars

\* A Check has returned the error while currentCache holds verdicts, none of
\* them for a key of that Check, and a pending map is waiting.
C13_Witness ==
    \E p \in Procs :
        /\ ck[p].pc = "done" /\ ck[p].resp = ErrorResponse /\ ~ck[p].overlap
        /\ currentCache # EmptyMap
        /\ KeySet(ck[p].req) \cap DOMAIN currentCache = {}
        /\ ~pendingCache.nil

----------------------------------------------------------------------------
\* Check p, whose request has no key, moves in this step.
EmptyCheckStep(p) ==
    ck[p].pc \notin {"idle", "done"} /\ KeySet(ck[p].req) = {} /\ ck'[p].pc # ck[p].pc

\* C14 as stated: in every state of the engine, a Check with no key that has
\* returned has returned allow=false, status "error", "No keys provided".
C14_NoKeysAlwaysError ==
    \A p \in Procs :
        (ck[p].pc = "done" /\ KeySet(ck[p].req) = {}) =>
            ck[p].resp = [Allow |-> FALSE, Status |-> "error", Message |-> "No keys provided"]

\* C14 as amended: a Check with no key calls no upstream and changes no
\* cache; when its warmup test finds warmup over it returns allow=false,
\* status "error", "No keys provided", and when the test finds the engine in
\* warmup it returns "Warmup: Allowed" like every other Check.
C14_NoKeysErrorAfterWarmup ==
    [][\A p \in Procs :
        EmptyCheckStep(p) =>
            /\ currentCache' = currentCache /\ pendingCache' = pendingCache
            /\ ck'[p].pc \notin {"call", "write"}
            /\ ck'[p].pc = "done" =>
                  ck'[p].resp =
                      IF ck[p].pc = "warm"
                      THEN [Allow |-> TRUE, Status |-> "success", Message |-> "Warmup: Allowed"]
                      ELSE [Allow |-> FALSE, Status |-> "error", Message |-> "No keys provided"]
            /\ (ck[p].pc = "warm" /\ ~warmUp) => ck'[p].pc = "lookup"
            /\ ck[p].pc = "lookupUA" => ck'[p].pc = "done"]_vars

\* A Check with no key has returned "No keys provided" from an engine whose
\* cache holds verdicts.
C14_Witness ==
    \E p \in Procs :
        /\ ck[p].pc = "done" /\ KeySet(ck[p].req) = {}
        /\ ck[p].resp.Message = "No keys provided"
        /\ currentCache # EmptyMap

----------------------------------------------------------------------------
\* The previous call of caller p returned from the cache-hit path, and no swap
\* has run since it returned.
RepeatsHit(p) == ck[p].prev \in {HitBlocked, HitAllowed} /\ ~ck[p].overlap

\* C15 as stated: a caller whose Check returned a cache hit and who repeats
\* the call, with the same resolved request and no swap in between, gets the
\* same response.
C15_HitIdempotent ==
    [][\A p \in Procs :
        (DecideStep(p) /\ RepeatsHit(p)) =>
            (ck'[p].pc = "done" /\ ck'[p].resp = ck[p].prev)]_vars

\* C15 as amended: the same, when in between no live check has written a
\* different entry for a key of the request; and the hit path itself changes
\* neither cache.
C15_HitIdempotentNoLiveWrite ==
    [][\A p \in Procs :
        /\ (DecideStep(p) /\ RepeatsHit(p) /\ ~ck[p].touched) =>
              (ck'[p].pc = "done" /\ ck'[p].resp = ck[p].prev)
        /\ (DecideStep(p) /\ ck'[p].resp \in {HitBlocked, HitAllowed}) =>
              (currentCache' = currentCache /\ pendingCache' = pendingCache)]_vars

\* A caller got "Cache Hit: Blocked" twice in a row for a request with two
\* keys, while another caller's live check has written to the cache.
C15_Witness ==
    \E p, q \in Procs :
        /\ ck[p].pc = "done" /\ ck[p].calls = 2 /\ ~ck[p].touched
        /\ ck[p].prev = HitBlocked /\ ck[p].resp = HitBlocked
        /\ Cardinality(KeySet(ck[p].req)) = 2
        /\ ck[q].pc = "done" /\ ck[q].resp.Message = "Allowed (Live Check)"

----------------------------------------------------------------------------
\* C16 as stated: when the batch call of the prefetch that ran since the
\* previous swap has succeeded before the swap, the swap installs the map
\* built from the results of that call and resets pendingCache to none.
C16_SwapInstallsPrefetchedMap ==
    [][(SwapStep /\ hist.lastDone) =>
          /\ ~pendingCache.nil
          /\ hist.pendingGen = hist.prefetches
          /\ currentCache' = pendingCache.m
          /\ pendingCache' = NilCache]_vars

----------------------------------------------------------------------------
\* The POSTs whose body holds the entry of the id-th QueueLog call.
PostsOf(id) ==
    {i \in DOMAIN posts : \E j \in DOMAIN posts[i].body : posts[i].body[j].id = id}

\* C17 as stated: once Stop has returned, with an upstream that answers 2xx,
\* every entry queued before Stop was called has been sent in exactly one
\* POST, whether Stop found it in the buffer or an asynchronous flush had
\* taken it before.
C17_StopDeliversEveryEntry ==
    (lg.main \in {"stopped", "exited"} /\ \A i \in DOMAIN posts : posts[i].ok) =>
        \A id \in DOMAIN lg.raws : Cardinality(PostsOf(id)) = 1

----------------------------------------------------------------------------
\* The entries of the first n QueueLog calls, in the order of the calls, each
\* with the token of its email.
FirstEntries(n) ==
    [i \in 1..n |->
        [id |-> i,
         Email |-> IF lg.raws[i] = "" THEN ""
                   ELSE OneWayKeyedHash(config.EmailEncryptionKey, lg.raws[i])]]

\* The batches that have left the buffer: in a goroutine or in a POST made.
Flushed == sending \cup {posts[i].body : i \in DOMAIN posts}

\* C18: with no tick and no Stop, nothing is flushed before the buffer has
\* reached LogBatchSize; after exactly LogBatchSize QueueLog calls one flush
\* is triggered and no more than one, its batch holds the LogBatchSize
\* entries in insertion order, each email replaced by its token, and it is
\* sent in one POST.
C18_BatchSizeTriggersOnePost ==
    (lg.main = "running" /\ ~lg.ticked) =>
        /\ Len(lg.raws) < LogBatchSize => (posts = <<>> /\ sending = {})
        /\ Len(lg.raws) = LogBatchSize =>
              /\ Len(posts) + Cardinality(sending) <= 1
              /\ (\A c \in LogCallers : lg.q[c] # "flush") =>
                    Len(posts) + Cardinality(sending) = 1
              /\ \A b \in Flushed :
                    /\ b = FirstEntries(LogBatchSize)
                    /\ \A i \in DOMAIN b : lg.raws[i] # "" => b[i].Email # lg.raws[i]

\* LogBatchSize QueueLog calls, one of them with an email, have been made and
\* the one POST has been made.
C18_Witness ==
    /\ lg.main = "running" /\ ~lg.ticked
    /\ Len(lg.raws) = LogBatchSize
    /\ \E i \in DOMAIN lg.raws : lg.raws[i] # ""
    /\ Len(posts) = 1 /\ sending = {}

----------------------------------------------------------------------------
\* The entries (by number) of a batch.
Ids(b) == {b[j].id : j \in DOMAIN b}

\* A POST that failed is appended to posts in this step.
FailedPostStep == Len(posts') = Len(posts) + 1 /\ ~posts'[Len(posts')].ok

\* C19: the step in which a POST fails changes nothing of the buffer and
\* spawns no goroutine, and leaves the callers of QueueLog and the ticker as
\* they are; and no entry of a POST that was made, failed or not, is in the
\* buffer, in a batch waiting to be sent or in another POST.
C19_FailedBatchDropped ==
    [][/\ FailedPostStep =>
            /\ buffer' = buffer
            /\ sending' \subseteq sending
            /\ lg'.q = lg.q /\ lg'.raws = lg.raws /\ lg'.ticked = lg.ticked
       /\ \A i \in DOMAIN posts' :
            /\ Ids(posts'[i].body) \cap Ids(buffer') = {}
            /\ Ids(posts'[i].body) \cap Ids(lg'.stopBatch) = {}
            /\ \A b \in sending' : Ids(posts'[i].body) \cap Ids(b) = {}
            /\ \A j \in DOMAIN posts' : j # i => Ids(posts'[i].body) \cap Ids(posts'[j].body) = {}
      ]_vars

\* A POST has failed, and after it an entry queued later has been delivered
\* in another POST.
C19_Witness ==
    \E i, j \in DOMAIN posts :
        /\ i < j /\ ~posts[i].ok /\ posts[j].ok
        /\ \E a \in Ids(posts[i].body), b \in Ids(posts[j].body) : a < b

----------------------------------------------------------------------------
\* The emails as the callers give them.
RawEmails == Emails \ {""}

\* C20 as stated: with an email encryption key configured, no key list of a
\* batch call (of a Check that missed, or of a prefetch) and no log entry of
\* a POST holds an email as it was given.
C20_NoRawEmailLeaves ==
    config.EmailEncryptionKey # "" =>
        /\ \A p \in Procs : ck[p].pc = "call" => MissKeys(ck[p].req) \cap RawEmails = {}
        /\ \A t \in inflight : t.keys \cap RawEmails = {}
        /\ \A i \in DOMAIN posts : \A j \in DOMAIN posts[i].body :
              posts[i].body[j].Email \notin RawEmails

----------------------------------------------------------------------------
\* A prefetch begins its drain in this step; a swap runs in this step.
DrainBegins == hist'.prefetches # hist.prefetches

SwapRuns == hist'.swaps # hist.swaps

\* C21: the loop begins with a prefetch and prefetch and swap alternate: a
\* drain begins only when as many swaps as drains have run, a swap runs only
\* when exactly one drain has begun since the previous swap, and never while
\* that drain is still in progress (the drain holds s.mu from its snapshot to
\* its reset).
C21_PrefetchSwapAlternate ==
    [][/\ DrainBegins => (hist.prefetches = hist.swaps /\ ~SwapRuns)
       /\ SwapRuns => (hist.prefetches = hist.swaps + 1 /\ ~mu.writer /\ ~DrainBegins)
       /\ mu.writer => ~SwapRuns]_vars

\* In the second window a Check is in the middle of its call while the drain
\* of the prefetch is in progress, and another Check started before the first
\* swap and is still running.
C21_Witness ==
    /\ hist.swaps = 1 /\ sched.pc = "reset"
    /\ \E p, q \in Procs :
          /\ p # q
          /\ ck[p].pc \notin {"idle", "done"} /\ ck[p].overlap
          /\ ck[q].pc \notin {"idle", "done"}

----------------------------------------------------------------------------
\* C22: with a refresh loop that keeps running, the first swap and every
\* later swap of the model's windows eventually happen, and from the first
\* swap on warmup is false for good, whatever the upstream does with the
\* batch calls.
C22_SwapsKeepHappening == <>[](~warmUp /\ hist.swaps = MaxSwaps)

\* Every window of the model has been swapped in while the batch calls of two
\* prefetches are still in flight, and no batch call has ever succeeded.
C22_Witness ==
    /\ hist.swaps = MaxSwaps /\ ~warmUp
    /\ Cardinality(inflight) = 2
    /\ pendingCache.nil /\ currentCache = EmptyMap

----------------------------------------------------------------------------
\* A step of the prefetch: its drain (snapshot, reset) or the end of its batch
\* call.
PrefetchStep ==
    \/ DrainBegins
    \/ sched.pc = "reset" /\ sched'.pc # "reset"
    \/ inflight' # inflight /\ inflight' \subseteq inflight

\* Check p returns from the warmup path or from the cache-hit path in this step.
QuickReturn(p) ==
    /\ ck[p].pc \in {"warm", "lookupUA"} /\ ck'[p].pc = "done"
    /\ ck'[p].resp.Message \in {"Warmup: Allowed", "Cache Hit", "Cache Hit: Blocked"}

\* C23: currentCache changes only in a swap or in the write of the results of
\* a Check that missed, and warmup only in a swap; the steps of a prefetch
\* leave currentCache and warmup as they are, the warmup return and the
\* cache-hit return of Check leave both maps as they are; and a key that is
\* deny becomes allow only in a swap or when a Check writes allow for it.
C23_CacheFrame ==
    [][/\ currentCache' # currentCache => (SwapRuns \/ \E p \in Procs : WriteStep(p))
       /\ warmUp' # warmUp => SwapRuns
       /\ PrefetchStep => (currentCache' = currentCache /\ warmUp' = warmUp)
       /\ \A p \in Procs :
            QuickReturn(p) => (currentCache' = currentCache /\ pendingCache' = pendingCache)
       /\ \A k \in DOMAIN currentCache :
            (~currentCache[k] /\ Allows(currentCache', k)) =>
                \/ SwapRuns
                \/ \E p \in Procs :
                      WriteStep(p) /\ k \in DOMAIN ck[p].results /\ ck[p].results[k]
      ]_vars

\* A key is deny in currentCache, a prefetch has stored a pending map that
\* allows it, and a Check has returned "Cache Hit: Blocked" on it.
C23_Witness ==
    \E k \in DOMAIN currentCache :
        /\ ~currentCache[k]
        /\ ~pendingCache.nil /\ Allows(pendingCache.m, k)
        /\ \E p \in Procs :
              ck[p].pc = "done" /\ ck[p].resp = HitBlocked /\ k \in KeySet(ck[p].req)

----------------------------------------------------------------------------
\* An upstream call is being made: the batch call of a Check that missed, the
\* batch call of a prefetch, or the POST of a log batch.
CallInProgress ==
    \/ \E p \in Procs : ck[p].pc = "call"
    \/ inflight # {}
    \/ sending # {}
    \/ lg.main = "stopping"

\* C24: the engine's lock is held only by a cache consultation in progress
\* (read mode) or by a prefetch drain in progress (write mode), never by a
\* Check whose batch call is being made and never on behalf of a batch call of
\* a prefetch, and the shipper's mutex is not held while a POST is being made;
\* so while upstream calls are in progress and no consultation or drain is, a
\* swap that is due can run and an idle caller can queue a log entry.
C24_NoCallUnderLock ==
    /\ mu.readers = {p \in Procs : ck[p].pc = "lookupUA"}
    /\ mu.writer <=> (sched.pc = "reset")
    /\ CallInProgress => ~lg.mu
    /\ (CallInProgress /\ sched.pc = "swap" /\ \A p \in Procs : ck[p].pc # "lookupUA")
          => ENABLED swapCache
    /\ (CallInProgress /\ lg.main = "running" /\ lg.q[1] = "idle")
          => ENABLED QueueAppend(1)

\* The batch call of a Check, the batch call of a prefetch, the POST of a
\* flushed log batch and the POST of Stop are all in progress.
C24_Witness ==
    /\ ck[1].pc = "call"
    /\ inflight # {}
    /\ sending # {}
    /\ lg.main = "stopping"

----------------------------------------------------------------------------
\* C25: once the loops are started, a configured window below 5 seconds has
\* given a window of 20, the fetch duration is the window minus 5 seconds or,
\* when that is zero or negative, 1 second, and a configured log flush
\* interval below 1 second has given 10; the fetch duration is positive and
\* shorter than the window, and each prefetch is scheduled strictly before the
\* swap of its window, which is scheduled strictly before the next prefetch.
C25_PeriodsClamped ==
    /\ clk.pc # "start" =>
          /\ clk.windowDuration = IF clk.WindowSeconds < 5 THEN 20 ELSE clk.WindowSeconds
          /\ clk.fetchDuration = IF clk.windowDuration - 5 <= 0 THEN 1
                                  ELSE clk.windowDuration - 5
          /\ 0 < clk.fetchDuration /\ clk.fetchDuration < clk.windowDuration
          /\ clk.pc = "prefetch" => clk.nextFetch < clk.nextSwap
          /\ clk.pc = "swap" =>
                (clk.fetchedAt < clk.nextSwap /\ clk.nextSwap < clk.nextFetch)
    /\ clk.lpc # "start" =>
          /\ clk.interval = IF clk.LogFlushInterval < 1 THEN 10 ELSE clk.LogFlushInterval
          /\ clk.interval >= 1 /\ clk.nextTick = (clk.ticks + 1) * clk.interval

\* A configured window of 5 seconds and a configured log flush interval of 0:
\* the fetch duration is 1 second, the interval 10, and the second prefetch
\* has been scheduled.
C25_Witness ==
    /\ clk.WindowSeconds = 5 /\ clk.fetchDuration = 1
    /\ clk.LogFlushInterval = 0 /\ clk.interval = 10
    /\ clk.windows = 1 /\ clk.pc = "swap"

----------------------------------------------------------------------------
\* The concatenation of a sequence of batches.
RECURSIVE Concat(_)
Concat(batches) ==
    IF batches = <<>> THEN <<>> ELSE Head(batches) \o Concat(Tail(batches))

\* The entries queued so far, in the order of their appends.
QueuedEntries ==
    [i \in 1..Len(lg.raws) |-> [id |-> i, Email |-> LogEmail(config, lg.raws[i])]]

\* The places where a drained batch is before and after its POST.
Holders(b) ==
    (IF b \in sending THEN {"goroutine"} ELSE {})
    \cup (IF lg.main = "stopping" /\ lg.stopBatch = b THEN {"Stop"} ELSE {})
    \cup {i \in DOMAIN posts : posts[i].body = b}

\* C26: the batches drained from the buffer, concatenated in the order of the
\* drains and followed by the buffer, are the queued entries in the order of
\* their appends, each entry once; no drained batch is empty; and while the
\* process runs each drained batch is held by exactly one sender, as the
\* batch of a goroutine or of Stop before its POST, or as the body of one POST.
C26_DrainsPartitionEntries ==
    /\ Concat(lg.drained) \o buffer = QueuedEntries
    /\ \A i \in DOMAIN lg.drained : lg.drained[i] # <<>>
    /\ \A i, j \in DOMAIN lg.drained :
           i # j => Ids(lg.drained[i]) \cap Ids(lg.drained[j]) = {}
    /\ lg.main # "exited" =>
           \A i \in DOMAIN lg.drained : Cardinality(Holders(lg.drained[i])) = 1

\* Every caller has queued its entry, a tick has drained a batch and Stop
\* has drained the rest, which it is about to send.
C26_Witness ==
    /\ Len(lg.raws) = NumQueues
    /\ lg.ticked
    /\ Len(lg.drained) >= 2
    /\ lg.main = "stopping" /\ lg.stopBatch = lg.drained[Len(lg.drained)]

----------------------------------------------------------------------------
\* The drain of a prefetch ends in this step: the reset, the Unlock and, with
\* keys, the spawn of the batch call.
DrainEnds == sched.pc = "reset" /\ sched'.pc # "reset"

\* C27: the snapshot of a drain is exactly the set of keys that Checks have
\* tracked since the previous drain began; the drain leaves the tracking set
\* empty; a snapshot with keys is sent, as it is, in one batch call, and an
\* empty snapshot starts no call and leaves pendingCache unchanged; no batch
\* call of a prefetch begins anywhere else, and none has an empty key list.
C27_PrefetchSendsTrackedKeys ==
    [][/\ DrainBegins => sched'.keys = hist.sinceDrain
       /\ DrainEnds =>
             /\ batchedKeys' = {}
             /\ pendingCache' = pendingCache
             /\ IF sched.keys = {}
                THEN inflight' = inflight
                ELSE /\ inflight' \ inflight =
                          {[gen |-> hist.prefetches, keys |-> sched.keys]}
                     /\ inflight \subseteq inflight'
       /\ ~(inflight' \subseteq inflight) => DrainEnds
       /\ \A t \in inflight' : t.keys # {}]_vars

\* The batch calls of two prefetches are in progress and have a key in
\* common, which a Check tracked again after the first drain; the tracking
\* set is empty after the second drain.
C27_Witness ==
    /\ \E t1, t2 \in inflight :
           t1.gen = 1 /\ t2.gen = 2 /\ t1.keys \cap t2.keys # {}
    /\ batchedKeys = {}

\* The second prefetch found no key and made no call, while the call of the
\* first is still in progress.
C27_EmptySnapshot ==
    /\ hist.prefetches = 2 /\ sched.pc = "swap"
    /\ \A t \in inflight : t.gen = 1
    /\ inflight # {}

====
